---- MODULE Spec2Model ----
(***************************************************************************)
(* Session-gated to-do list: the iron-session cookie flow                  *)
(* (auth.createSession / auth.deleteSession), the tRPC session middleware  *)
(* (isAuthenticated / protectedProcedure) and the protected procedures     *)
(* (todo.*, ai.generateStream).                                            *)
(*                                                                         *)
(* One browser talks to the server.  Every request is one action: it       *)
(* carries the browser's cookie jar, runs the middleware and the handler   *)
(* to completion and leaves its response, with what the handler did, in    *)
(* `last`.                                                                 *)
(***************************************************************************)
EXTENDS Integers, Sequences, FiniteSets, Bags, TLC

VARIABLES
    jar,      \* the browser's `session` cookie
    users,    \* User Directory: uid -> email, "null" or "absent"
    todos,    \* To-Do Store: id -> row
    nextId,   \* the autoincrement of Todo.id
    last,     \* the last request: what it carried, what it did, what it answered
    hist,     \* history: who created each to-do, which were deleted, whose seals
              \* createSession issued
    boot,     \* the server process: its environment and whether its modules loaded
    stream,   \* the subscription of ai.generateStream: upstream, generator, wire
    chat,     \* ChatInterface: its React state
    ctx       \* AuthProvider: the identity provider's user, its React state, its
              \* requests in flight

vars == <<jar, users, todos, nextId, last, hist, boot, stream, chat, ctx>>

\* the Stream Bridge and the React clients, which the procedures leave alone
bridge == <<stream, chat, ctx>>

----------------------------------------------------------------------------
(* Bounds and value sets *)

MaxTodos == 2
\* chunks the hosted API produces in one generation
MaxChunks == 3
\* prompts the chat sends
MaxSends == 1
\* sign-ins with the identity provider
MaxSignIns == 1

Users == {"u1", "u2"}
NoUser == ""

Titles == {"a", "b"}
Descriptions == {"d"}
Null == "null"
Undefined == "undefined"

TodoStatus == {"BACKLOG", "TODO", "IN_PROGRESS", "DONE", "CANCELED"}
StatusInputs == {"DONE"}

Ids == 1..MaxTodos
IdInputs == 1..(MaxTodos + 1)

\* the title and description of an updateDetails: both, one, none
DetailInputs == {<<"b", "d">>, <<Undefined, "d">>, <<Undefined, Undefined>>}

\* seconds elapsed since a seal was made: fresh, just past the cookie's maxAge,
\* just past the seal's own ttl plus the clock skew iron allows
Elapsed == {0, (60 * 60 * 24 * 5) + 1, (60 * 60 * 24 * 14) + 60 + 1}

SESSION_DURATION_SECONDS == 60 * 60 * 24 * 5
IronDefaultTtl == 60 * 60 * 24 * 14
IronSkew == 60

SessionPassword == "server"

SESSION_COOKIE_NAME == "session"

\* the shortest SESSION_SECRET the modules accept
MinSecretLength == 32

\* lengths of SESSION_SECRET in the environment; 0 is an unset variable
SecretLengths == {0, MinSecretLength - 1, MinSecretLength, MinSecretLength + 1}

NodeEnvs == {"production", "development"}

----------------------------------------------------------------------------
(* Cookies *)

NoCookie == [kind |-> "absent", key |-> "", uid |-> NoUser, age |-> 0]
EmptyCookie == [kind |-> "empty", key |-> "", uid |-> NoUser, age |-> 0]
\* a value that is no seal at all (a raw identity token, say)
RawCookie == [kind |-> "raw", key |-> "", uid |-> NoUser, age |-> 0]
\* a seal whose bytes were changed
TamperedCookie == [kind |-> "tampered", key |-> SessionPassword, uid |-> "u1", age |-> 0]

\* sealData(sessionData, sessionOptions): the claims under the password, age 0
SealData(uid, password) ==
    [kind |-> "sealed", key |-> password, uid |-> uid, age |-> 0]

\* what a client can put in its jar without the server's secret
Forgeable == {EmptyCookie, RawCookie, TamperedCookie, SealData("u1", "other")}

\* cookieStore.get(name)?.value is falsy
NoValue(cookie) == cookie.kind \in {"absent", "empty"}

\* unsealData opening a seal made under any password
UnsealData_AnyPassword(cookie, password) ==
    CASE cookie.kind = "tampered" -> [kind |-> "throw", uid |-> NoUser]
      [] cookie.kind = "sealed"
           /\ cookie.age <= IronDefaultTtl + IronSkew
         -> [kind |-> "data", uid |-> cookie.uid]
      [] OTHER -> [kind |-> "empty", uid |-> NoUser]

\* unsealData(value, {password}): the claims; {} for a seal that is expired, made
\* under another password or not a seal; a throw for any other defect
UnsealData(cookie, password) ==
    CASE cookie.kind = "tampered" -> [kind |-> "throw", uid |-> NoUser]
      [] cookie.kind = "sealed" /\ cookie.key = password
           /\ cookie.age <= IronDefaultTtl + IronSkew
         -> [kind |-> "data", uid |-> cookie.uid]
      [] OTHER -> [kind |-> "empty", uid |-> NoUser]

\* sessionOptions.cookieOptions, with the name the cookie is set under
CookieOptions_AlwaysSecure(nodeEnv) ==
    [name |-> SESSION_COOKIE_NAME, httpOnly |-> TRUE, secure |-> TRUE,
     maxAge |-> SESSION_DURATION_SECONDS, path |-> "/", sameSite |-> "lax"]
CookieOptions(nodeEnv) ==
    [name |-> SESSION_COOKIE_NAME, httpOnly |-> TRUE,
     secure |-> (nodeEnv = "production"),
     maxAge |-> SESSION_DURATION_SECONDS, path |-> "/", sameSite |-> "lax"]

\* no cookie was set
NoAttributes ==
    [name |-> "", httpOnly |-> FALSE, secure |-> FALSE,
     maxAge |-> 0, path |-> "", sameSite |-> ""]

----------------------------------------------------------------------------
(* Requests and responses *)

\* a request of `op` carrying `cookie`, before anything ran
Request(op, cookie) ==
    [op |-> op, cookie |-> cookie, id |-> 0, token |-> "",
     code |-> "OK", msg |-> "", uid |-> NoUser, ran |-> FALSE,
     reads |-> 0, writes |-> 0, gen |-> 0, count |-> 0, body |-> <<>>,
     nfields |-> 0, verified |-> NoUser, fault |-> "none", cookieOp |-> "none",
     attrs |-> NoAttributes, given |-> {}]

\* no request: the client, or time, acted last
Idle == Request("none", NoCookie)

ProtectedOps ==
    {"todo.create", "todo.getAll", "todo.updateStatus", "todo.updateDetails",
     "todo.delete", "ai.generateStream"}
MutationOps == {"todo.updateStatus", "todo.updateDetails", "todo.delete"}

NotFoundUpdate == "Todo not found or update failed"
NotFoundDelete == "Todo not found or delete failed"

----------------------------------------------------------------------------
(* Session Middleware *)

Unauthorized(msg) == [ok |-> FALSE, uid |-> NoUser, code |-> "UNAUTHORIZED", msg |-> msg]

\* isAuthenticated without its missing-cookie check: the request goes on to
\* next() with no user
IsAuthenticated_NoCookieCheck(cookie) ==
    IF NoValue(cookie)
    THEN [ok |-> TRUE, uid |-> NoUser, code |-> "OK", msg |-> ""]
    ELSE LET sessionData == UnsealData(cookie, SessionPassword) IN
         IF sessionData.kind = "data" /\ sessionData.uid # NoUser
         THEN [ok |-> TRUE, uid |-> sessionData.uid, code |-> "OK", msg |-> ""]
         ELSE Unauthorized("Invalid or expired session.")

\* isAuthenticated reading the user from the cookie value without unsealing it
IsAuthenticated_TrustCookie(cookie) ==
    IF NoValue(cookie)
    THEN Unauthorized("Not authenticated.")
    ELSE IF cookie.uid # NoUser
         THEN [ok |-> TRUE, uid |-> cookie.uid, code |-> "OK", msg |-> ""]
         ELSE Unauthorized("Invalid or expired session.")

\* isAuthenticated failing open: a session that does not unseal goes on as anonymous
IsAuthenticated_FailOpen(cookie) ==
    IF NoValue(cookie)
    THEN Unauthorized("Not authenticated.")
    ELSE LET sessionData == UnsealData(cookie, SessionPassword) IN
         IF sessionData.kind = "data" /\ sessionData.uid # NoUser
         THEN [ok |-> TRUE, uid |-> sessionData.uid, code |-> "OK", msg |-> ""]
         ELSE [ok |-> TRUE, uid |-> NoUser, code |-> "OK", msg |-> ""]

\* isAuthenticated: no cookie value, a throw of unsealData, or data without a uid
\* (the TRPCError thrown inside the try is caught and thrown again) reject the
\* request; otherwise next() runs with ctx.user = sessionData
IsAuthenticated(cookie) ==
    IF NoValue(cookie)
    THEN Unauthorized("Not authenticated.")
    ELSE LET sessionData == UnsealData(cookie, SessionPassword) IN
         IF sessionData.kind = "throw"
         THEN Unauthorized("Invalid or expired session.")
         ELSE IF sessionData.uid = NoUser
              THEN Unauthorized("Invalid or expired session.")
              ELSE [ok |-> TRUE, uid |-> sessionData.uid, code |-> "OK", msg |-> ""]

\* protectedProcedure when the middleware throws: the error is the response and
\* nothing else happens
Rejected(req, auth) ==
    /\ last' = [req EXCEPT !.code = auth.code, !.msg = auth.msg]
    /\ UNCHANGED <<jar, users, todos, nextId, hist, boot>>

\* the procedure's zod input parser throws: BAD_REQUEST
BadRequest(req, auth) ==
    /\ last' = [req EXCEPT !.code = "BAD_REQUEST", !.uid = auth.uid]
    /\ UNCHANGED <<jar, users, todos, nextId, hist, boot>>

\* the request as the handler sees it: ctx.user set
Running(req, auth) == [req EXCEPT !.uid = auth.uid, !.ran = TRUE]

----------------------------------------------------------------------------
(* To-Do Store (Prisma) *)

\* db.todo.create: the row as stored; an absent description is stored as null
NewTodo(id, title, description, uid) ==
    [id |-> id, title |-> title,
     description |-> IF description = Undefined THEN Null ELSE description,
     status |-> "TODO", userId |-> uid]

\* where: {userId}
FindWhere_AnyOwner(ts, uid) == DOMAIN ts
FindWhere(ts, uid) == {i \in DOMAIN ts : ts[i].userId = uid}

\* where: {id, userId}
Matching_IdOnly(ts, id, uid) == {i \in DOMAIN ts : i = id}
Matching(ts, id, uid) == {i \in DOMAIN ts : i = id /\ ts[i].userId = uid}

RECURSIVE NewestFirst(_, _)
\* orderBy createdAt desc: ids are handed out in creation order
NewestFirst(ts, ids) ==
    IF ids = {} THEN <<>>
    ELSE LET m == CHOOSE i \in ids : \A j \in ids : j <= i
         IN <<ts[m]>> \o NewestFirst(ts, ids \ {m})

\* an update that also puts the row back to TODO
Patched_ResetStatus(row, title, description) ==
    [row EXCEPT !.title = IF title = Undefined THEN @ ELSE title,
                !.description = IF description = Undefined THEN @ ELSE description,
                !.status = "TODO"]
\* dataToUpdate of updateDetails: the fields the input provides
Patched(row, title, description) ==
    [row EXCEPT !.title = IF title = Undefined THEN @ ELSE title,
                !.description = IF description = Undefined THEN @ ELSE description]

\* Object.keys(dataToUpdate)
Given(title, description) ==
    (IF title = Undefined THEN {} ELSE {"title"})
        \cup (IF description = Undefined THEN {} ELSE {"description"})

\* the check for an empty dataToUpdate left out
NumFields_AtLeastOne(title, description) == 1
\* Object.keys(dataToUpdate).length
NumFields(title, description) ==
    (IF title = Undefined THEN 0 ELSE 1) + (IF description = Undefined THEN 0 ELSE 1)

Remove(ts, ids) == [i \in DOMAIN ts \ ids |-> ts[i]]

----------------------------------------------------------------------------
(* Protected procedures *)

\* a mutation that answers success whatever the count
Outcome_NoCountCheck(req, count, notFound) ==
    [req EXCEPT !.writes = 1, !.count = count]

\* const {count} = await db.todo.updateMany/deleteMany(...); if (count === 0)
\* throw new Error(...): tRPC answers a plain Error as INTERNAL_SERVER_ERROR
\* with the Error's message
Outcome(req, count, notFound) ==
    [req EXCEPT !.writes = 1, !.count = count,
                !.code = IF count = 0 THEN "INTERNAL_SERVER_ERROR" ELSE "OK",
                !.msg = IF count = 0 THEN notFound ELSE ""]

\* todo.create
TodoCreate(title, description) ==
    LET auth == IsAuthenticated(jar)
        req == Request("todo.create", jar)
    IN IF ~auth.ok THEN Rejected(req, auth)
       ELSE IF title = "" THEN BadRequest(req, auth)
       ELSE LET row == NewTodo(nextId, title, description, auth.uid) IN
            /\ nextId <= MaxTodos
            /\ todos' = [i \in DOMAIN todos \cup {nextId} |->
                            IF i = nextId THEN row ELSE todos[i]]
            /\ nextId' = nextId + 1
            /\ last' = [Running(req, auth) EXCEPT
                            !.writes = 1, !.count = 1, !.id = nextId, !.body = <<row>>]
            /\ hist' = [hist EXCEPT !.creator =
                            [i \in DOMAIN @ \cup {nextId} |->
                                IF i = nextId THEN auth.uid ELSE @[i]]]
            /\ UNCHANGED <<jar, users, boot>>

\* todo.getAll
TodoGetAll ==
    LET auth == IsAuthenticated(jar)
        req == Request("todo.getAll", jar)
    IN IF ~auth.ok THEN Rejected(req, auth)
       ELSE /\ last' = [Running(req, auth) EXCEPT
                            !.reads = 1,
                            !.body = NewestFirst(todos, FindWhere(todos, auth.uid))]
            /\ UNCHANGED <<jar, users, todos, nextId, hist, boot>>

\* todo.updateStatus
TodoUpdateStatus(id, status) ==
    LET auth == IsAuthenticated(jar)
        req == [Request("todo.updateStatus", jar) EXCEPT !.id = id]
    IN IF ~auth.ok THEN Rejected(req, auth)
       ELSE IF status \notin TodoStatus THEN BadRequest(req, auth)
       ELSE LET hit == Matching(todos, id, auth.uid)
                count == Cardinality(hit)
            IN /\ todos' = [i \in DOMAIN todos |->
                               IF i \in hit THEN [todos[i] EXCEPT !.status = status]
                               ELSE todos[i]]
               /\ last' = Outcome(Running(req, auth), count, NotFoundUpdate)
               /\ UNCHANGED <<jar, users, nextId, hist, boot>>

\* todo.updateDetails
TodoUpdateDetails(id, title, description) ==
    LET auth == IsAuthenticated(jar)
        req == [Request("todo.updateDetails", jar) EXCEPT
                    !.id = id, !.nfields = NumFields(title, description),
                    !.given = Given(title, description)]
    IN IF ~auth.ok THEN Rejected(req, auth)
       ELSE IF title = "" THEN BadRequest(req, auth)
       ELSE IF NumFields(title, description) = 0
       THEN /\ last' = [Running(req, auth) EXCEPT !.msg = "No changes provided"]
            /\ UNCHANGED <<jar, users, todos, nextId, hist, boot>>
       ELSE LET hit == Matching(todos, id, auth.uid)
                count == Cardinality(hit)
            IN /\ todos' = [i \in DOMAIN todos |->
                               IF i \in hit THEN Patched(todos[i], title, description)
                               ELSE todos[i]]
               /\ last' = Outcome(Running(req, auth), count, NotFoundUpdate)
               /\ UNCHANGED <<jar, users, nextId, hist, boot>>

\* a delete that looks the row up by id first and tells a missing row from
\* another owner's
TodoDelete_LookupFirst(id) ==
    LET auth == IsAuthenticated(jar)
        req == [Request("todo.delete", jar) EXCEPT !.id = id]
    IN IF ~auth.ok THEN Rejected(req, auth)
       ELSE IF id \notin DOMAIN todos
       THEN /\ last' = [Running(req, auth) EXCEPT !.reads = 1,
                            !.code = "NOT_FOUND", !.msg = "Todo not found"]
            /\ UNCHANGED <<jar, users, todos, nextId, hist, boot>>
       ELSE IF todos[id].userId # auth.uid
       THEN /\ last' = [Running(req, auth) EXCEPT !.reads = 1,
                            !.code = "FORBIDDEN", !.msg = "Not your todo"]
            /\ UNCHANGED <<jar, users, todos, nextId, hist, boot>>
       ELSE /\ todos' = Remove(todos, {id})
            /\ last' = [Running(req, auth) EXCEPT !.reads = 1, !.writes = 1,
                                                  !.count = 1]
            /\ hist' = [hist EXCEPT !.deleted = @ \cup {id}]
            /\ UNCHANGED <<jar, users, nextId, boot>>

\* todo.delete
TodoDelete(id) ==
    LET auth == IsAuthenticated(jar)
        req == [Request("todo.delete", jar) EXCEPT !.id = id]
    IN IF ~auth.ok THEN Rejected(req, auth)
       ELSE LET hit == Matching(todos, id, auth.uid)
                count == Cardinality(hit)
            IN /\ todos' = Remove(todos, hit)
               /\ last' = Outcome(Running(req, auth), count, NotFoundDelete)
               /\ hist' = [hist EXCEPT !.deleted = @ \cup hit]
               /\ UNCHANGED <<jar, users, nextId, boot>>

\* ai.generateStream: the subscription starts and opens the upstream generation
AiGenerateStream(prompt) ==
    LET auth == IsAuthenticated(jar)
        req == Request("ai.generateStream", jar)
    IN IF ~auth.ok THEN Rejected(req, auth)
       ELSE IF prompt = "" THEN BadRequest(req, auth)
       ELSE /\ last' = [Running(req, auth) EXCEPT !.gen = 1]
            /\ UNCHANGED <<jar, users, todos, nextId, hist, boot>>

----------------------------------------------------------------------------
(* Identity Verifier and session endpoints *)

IdTokens == {"tok_u1", "tok_u1_noemail", "tok_u2", "tok_nouid", "tok_bad"}

\* adminAuth.verifyIdToken: the decoded token, or a throw
VerifyIdToken(token) ==
    CASE token = "tok_u1" -> [ok |-> TRUE, uid |-> "u1", email |-> "e1"]
      [] token = "tok_u1_noemail" -> [ok |-> TRUE, uid |-> "u1", email |-> Undefined]
      [] token = "tok_u2" -> [ok |-> TRUE, uid |-> "u2", email |-> Undefined]
      [] token = "tok_nouid" -> [ok |-> TRUE, uid |-> NoUser, email |-> Undefined]
      [] OTHER -> [ok |-> FALSE, uid |-> NoUser, email |-> Undefined]

\* what may fail once the token is verified
Faults == {"none", "upsert", "seal", "set"}

\* an upsert that leaves a record it finds as it is
Upsert_CreateOnly(dir, uid, email) ==
    IF dir[uid] # "absent" THEN dir
    ELSE [dir EXCEPT ![uid] = IF email = Undefined THEN Null ELSE email]

\* a sign-in that writes no user record
Upsert_Nothing(dir, uid, email) == dir
\* ctx.db.user.upsert: create with the email, or update the email
Upsert(dir, uid, email) ==
    [dir EXCEPT ![uid] = IF email = Undefined THEN Null ELSE email]

\* step 2 of createSession: the request's cookie unseals to the verified uid
ExistingSession_Never(cookie, uid) == FALSE
\* step 2 accepting the cookie of any subject
ExistingSession_AnySubject(cookie, uid) ==
    /\ ~NoValue(cookie)
    /\ UnsealData(cookie, SessionPassword).kind = "data"
ExistingSession(cookie, uid) ==
    /\ ~NoValue(cookie)
    /\ LET unsealedSession == UnsealData(cookie, SessionPassword) IN
         /\ unsealedSession.kind = "data"
         /\ unsealedSession.uid = uid

\* step 1 of createSession: the token verifies and carries a uid
Verified_NoUidCheck(decodedToken) == decodedToken.ok
Verified(decodedToken) == decodedToken.ok /\ decodedToken.uid # NoUser

\* the catch of step 1
VerificationFailure_AsInternal ==
    [code |-> "INTERNAL_SERVER_ERROR", msg |-> "Failed to create session or sync user."]
VerificationFailure ==
    [code |-> "UNAUTHORIZED", msg |-> "ID token verification failed."]

\* the catch of steps 2 to 4: the errors of Prisma, iron-session and the cookie
\* store are no TRPCError
ProcessingFailure ==
    [code |-> "INTERNAL_SERVER_ERROR", msg |-> "Failed to process session or sync user."]

\* auth.createSession
CreateSession(token, fault) ==
    LET decodedToken == VerifyIdToken(token)
        req == [Request("auth.createSession", jar) EXCEPT
                    !.token = token, !.fault = fault, !.ran = TRUE]
    IN IF ~Verified(decodedToken)
       THEN /\ last' = [req EXCEPT !.code = VerificationFailure.code,
                                   !.msg = VerificationFailure.msg]
            /\ UNCHANGED <<jar, users, todos, nextId, hist, boot>>
       ELSE LET v == [req EXCEPT !.verified = decodedToken.uid] IN
            IF ExistingSession(jar, decodedToken.uid)
            THEN /\ last' = [v EXCEPT !.msg = "Existing session validated."]
                 /\ UNCHANGED <<jar, users, todos, nextId, hist, boot>>
            ELSE IF fault = "upsert"
            THEN /\ last' = [v EXCEPT !.code = ProcessingFailure.code,
                                      !.msg = ProcessingFailure.msg]
                 /\ UNCHANGED <<jar, users, todos, nextId, hist, boot>>
            ELSE IF fault \in {"seal", "set"}
            THEN /\ users' = Upsert(users, decodedToken.uid, decodedToken.email)
                 /\ last' = [v EXCEPT !.code = ProcessingFailure.code,
                                      !.msg = ProcessingFailure.msg,
                                      !.writes = 1]
                 /\ UNCHANGED <<jar, todos, nextId, hist, boot>>
            ELSE /\ users' = Upsert(users, decodedToken.uid, decodedToken.email)
                 /\ jar' = SealData(decodedToken.uid, SessionPassword)
                 /\ last' = [v EXCEPT !.msg = "Session created/updated.",
                                      !.writes = 1, !.cookieOp = "set",
                                      !.attrs = CookieOptions(boot.nodeEnv)]
                 /\ hist' = [hist EXCEPT !.issued = @ \cup {decodedToken.uid}]
                 /\ UNCHANGED <<todos, nextId, boot>>

\* deleteSession as a procedure that wants a session to delete: without one it
\* answers UNAUTHORIZED
DeleteSession_NeedsSession(fault) ==
    LET req == [Request("auth.deleteSession", jar) EXCEPT
                    !.ran = TRUE, !.fault = fault] IN
    IF fault = "delete"
    THEN /\ last' = [req EXCEPT !.code = "INTERNAL_SERVER_ERROR",
                                !.msg = "Failed to delete session."]
         /\ UNCHANGED <<jar, users, todos, nextId, hist, boot>>
    ELSE IF NoValue(jar)
    THEN /\ last' = [req EXCEPT !.code = "UNAUTHORIZED",
                                !.msg = "Not authenticated."]
         /\ UNCHANGED <<jar, users, todos, nextId, hist, boot>>
    ELSE /\ jar' = NoCookie
         /\ last' = [req EXCEPT !.cookieOp = "delete"]
         /\ UNCHANGED <<users, todos, nextId, hist, boot>>

\* auth.deleteSession; the cookie store's delete may throw
DeleteSession(fault) ==
    LET req == [Request("auth.deleteSession", jar) EXCEPT
                    !.ran = TRUE, !.fault = fault] IN
    IF fault = "delete"
    THEN /\ last' = [req EXCEPT !.code = "INTERNAL_SERVER_ERROR",
                                !.msg = "Failed to delete session."]
         /\ UNCHANGED <<jar, users, todos, nextId, hist, boot>>
    ELSE /\ jar' = NoCookie
         /\ last' = [req EXCEPT !.cookieOp = "delete"]
         /\ UNCHANGED <<users, todos, nextId, hist, boot>>

----------------------------------------------------------------------------
(* The client and time *)

\* the client sends a cookie of its own making
ClientSetCookie(v) ==
    /\ jar # v
    /\ jar' = v
    /\ last' = Idle
    /\ UNCHANGED <<users, todos, nextId, hist, boot>>

\* time passes: the seal in the jar gets older
Tick(t) ==
    /\ jar.kind = "sealed"
    /\ jar.key = SessionPassword
    /\ t > jar.age
    /\ jar' = [jar EXCEPT !.age = t]
    /\ last' = Idle
    /\ UNCHANGED <<users, todos, nextId, hist, boot>>

\* the browser drops the cookie the server set once its maxAge is over
BrowserExpire ==
    /\ jar.kind = "sealed"
    /\ jar.key = SessionPassword
    /\ jar.age > SESSION_DURATION_SECONDS
    /\ jar' = NoCookie
    /\ last' = Idle
    /\ UNCHANGED <<users, todos, nextId, hist, boot>>

----------------------------------------------------------------------------
(* The Stream Bridge: ai.generateStream over generateGeminiStream *)

\* text is a sequence of characters, and + on strings is \o
FragmentTexts == {<<"a">>, <<"b">>}

\* a chunk of the hosted API: chunk.text is a string, or undefined
Chunks ==
    {[hasText |-> TRUE, text |-> t] : t \in FragmentTexts}
        \cup {[hasText |-> FALSE, text |-> <<>>]}

\* what the hosted API answers to a pull: a chunk, the end of the stream, a fault
Outcomes ==
    {[kind |-> "chunk", chunk |-> c] : c \in Chunks}
        \cup {[kind |-> k, chunk |-> [hasText |-> FALSE, text |-> <<>>]] :
                 k \in {"end", "fault"}}

\* the string generateGeminiStream yields from its catch
ErrorText == <<"Error generating response from AI.">>

\* the events of a subscription as the subscriber sees them
Data(text) == [type |-> "data", text |-> text, code |-> ""]
Complete == [type |-> "complete", text |-> <<>>, code |-> ""]
ErrorEvent(code) == [type |-> "error", text |-> <<>>, code |-> code]

\* the loop bodies of generateGeminiStream and generateStream for one chunk:
\* chunk.text is yielded when it is not undefined, and being a string it is
\* yielded on
Fragments(chunk) == IF chunk.hasText THEN <<Data(chunk.text)>> ELSE <<>>

\* generators that return without the subscriber being told
OnEnd_Silent == <<>>
\* the upstream iterator is exhausted: both loops end, the generators return
OnEnd == <<Complete>>

\* the upstream call or iterator throws: the catch of generateGeminiStream
\* yields ErrorText and the generator returns; the catch of generateStream is
\* not reached
OnFault == <<Data(ErrorText), Complete>>

StreamIdle ==
    [sub |-> 0, state |-> "idle", cancelled |-> FALSE,
     produced |-> <<>>, upstream |-> "none",
     wire |-> <<>>, sent |-> <<>>, got |-> <<>>, msgId |-> 0]

\* an event leaves the server, unless the subscriber is gone
Emit(s, events) ==
    IF s.cancelled THEN s
    ELSE [s EXCEPT !.wire = @ \o events, !.sent = @ \o events]

----------------------------------------------------------------------------
(* ChatInterface *)

InputTexts == {"hi", " "}

\* String.prototype.trim
Trim(text) == IF text = " " THEN "" ELSE text

ChatInit ==
    [messages |-> <<>>, inputValue |-> "", isGenerating |-> FALSE,
     currentPrompt |-> "", currentId |-> 0, sends |-> 0]

\* the `enabled` option of useSubscription
SubscriptionEnabled(c) ==
    c.isGenerating /\ c.currentPrompt # "" /\ c.currentId # 0

\* handleSendMessage without the isGenerating test
HandleSendMessage_NoGuard(c) ==
    LET promptToSend == Trim(c.inputValue)
        assistantMessageId == 2 * c.sends + 2
        userMessage ==
            [id |-> 2 * c.sends + 1, role |-> "user", content |-> <<promptToSend>>]
        assistantMessage ==
            [id |-> assistantMessageId, role |-> "assistant", content |-> <<>>]
    IN IF promptToSend = "" THEN c
       ELSE [c EXCEPT !.messages = @ \o <<userMessage, assistantMessage>>,
                      !.currentId = assistantMessageId,
                      !.inputValue = "",
                      !.currentPrompt = promptToSend,
                      !.isGenerating = TRUE,
                      !.sends = @ + 1]
\* handleSendMessage; the ids of uuidv4 are the next two unused numbers
HandleSendMessage(c) ==
    LET promptToSend == Trim(c.inputValue)
        assistantMessageId == 2 * c.sends + 2
        userMessage ==
            [id |-> 2 * c.sends + 1, role |-> "user", content |-> <<promptToSend>>]
        assistantMessage ==
            [id |-> assistantMessageId, role |-> "assistant", content |-> <<>>]
    IN IF promptToSend = "" \/ c.isGenerating THEN c
       ELSE [c EXCEPT !.messages = @ \o <<userMessage, assistantMessage>>,
                      !.currentId = assistantMessageId,
                      !.inputValue = "",
                      !.currentPrompt = promptToSend,
                      !.isGenerating = TRUE,
                      !.sends = @ + 1]

\* onData overwriting the message with the chunk
OnData_Replace(c, chunk) ==
    IF c.currentId = 0 THEN c
    ELSE [c EXCEPT !.messages =
            [i \in DOMAIN @ |->
                IF @[i].id = c.currentId
                THEN [@[i] EXCEPT !.content = chunk]
                ELSE @[i]]]
\* onData
OnData(c, chunk) ==
    IF c.currentId = 0 THEN c
    ELSE [c EXCEPT !.messages =
            [i \in DOMAIN @ |->
                IF @[i].id = c.currentId
                THEN [@[i] EXCEPT !.content = @ \o chunk]
                ELSE @[i]]]

\* prev.filter((msg) => msg.id !== id)
RECURSIVE Without(_, _)
Without(messages, id) ==
    IF messages = <<>> THEN <<>>
    ELSE IF Head(messages).id = id THEN Without(Tail(messages), id)
    ELSE <<Head(messages)>> \o Without(Tail(messages), id)

\* onError
OnError(c) ==
    [c EXCEPT !.isGenerating = FALSE,
              !.currentPrompt = "",
              !.messages = IF c.currentId # 0 THEN Without(@, c.currentId) ELSE @,
              !.currentId = 0]

\* onComplete
OnComplete(c) ==
    [c EXCEPT !.isGenerating = FALSE, !.currentPrompt = "", !.currentId = 0]

\* the user types `text` and sends it
ChatSend(text) ==
    /\ chat.sends < MaxSends \/ chat.isGenerating
    /\ chat' = HandleSendMessage([chat EXCEPT !.inputValue = text])
    /\ chat' # chat
    /\ UNCHANGED <<jar, users, todos, nextId, last, hist, boot, stream, ctx>>

\* useSubscription subscribes once `enabled` holds: the request passes the
\* Session Middleware and the input parser, then the generator starts; a
\* rejected request reaches the subscriber as an error event
Subscribe ==
    /\ SubscriptionEnabled(chat)
    /\ stream.sub < chat.sends
    /\ stream.state \in {"idle", "ended"}
    /\ AiGenerateStream(chat.currentPrompt)
    /\ stream' =
          IF last'.ran
          THEN [StreamIdle EXCEPT !.sub = chat.sends, !.msgId = chat.currentId,
                                  !.state = "opening"]
          ELSE [StreamIdle EXCEPT !.sub = chat.sends, !.msgId = chat.currentId,
                                  !.state = "ended",
                                  !.wire = <<ErrorEvent(last'.code)>>,
                                  !.sent = <<ErrorEvent(last'.code)>>]
    /\ UNCHANGED <<chat, ctx>>

\* genAI.models.generateContentStream resolves or rejects; on a result the
\* for await makes its first pull
UpstreamOpen(ok) ==
    /\ stream.state = "opening"
    /\ stream' =
          IF ok
          THEN [stream EXCEPT !.state = "pulling", !.upstream = "open"]
          ELSE [Emit(stream, OnFault) EXCEPT !.state = "ended", !.upstream = "fault"]
    /\ UNCHANGED <<jar, users, todos, nextId, last, hist, boot, chat, ctx>>

\* the hosted API answers the pull in flight (state "pulling").  A live
\* subscription gets the chunk's fragment and the generator pulls again.  After a cancellation the
\* generator, resumed by the chunk, runs on to its next yield, where the
\* pending return() ends it and closes the upstream iterator; a chunk without
\* text has no yield, so the loop pulls again.
UpstreamRespond(outcome) ==
    /\ stream.state = "pulling"
    /\ outcome.kind = "chunk" => Len(stream.produced) < MaxChunks
    /\ stream' =
          CASE outcome.kind = "end" ->
                 [Emit(stream, OnEnd) EXCEPT !.state = "ended",
                                             !.upstream = "complete"]
            [] outcome.kind = "fault" ->
                 [Emit(stream, OnFault) EXCEPT !.state = "ended",
                                               !.upstream = "fault"]
            [] OTHER ->
                 LET s == [stream EXCEPT !.produced = Append(@, outcome.chunk)] IN
                 IF s.cancelled /\ outcome.chunk.hasText
                 THEN [s EXCEPT !.state = "ended", !.upstream = "closed"]
                 ELSE Emit(s, Fragments(outcome.chunk))
    /\ UNCHANGED <<jar, users, todos, nextId, last, hist, boot, chat, ctx>>

\* the next event on the wire reaches the handlers of useSubscription
ClientDeliver ==
    /\ stream.wire # <<>>
    /\ LET ev == Head(stream.wire) IN
       /\ stream' = [stream EXCEPT !.wire = Tail(@), !.got = Append(@, ev)]
       /\ chat' = CASE ev.type = "data" -> OnData(chat, ev.text)
                    [] ev.type = "error" -> OnError(chat)
                    [] OTHER -> OnComplete(chat)
    /\ UNCHANGED <<jar, users, todos, nextId, last, hist, boot, ctx>>

\* the page is left mid-stream and opened again: the subscription is
\* cancelled, tRPC calls return() on the generator, the component starts from
\* its initial state.  A generator resting at a yield ends at once and closes
\* the upstream iterator; one awaiting the upstream goes on until the pull in
\* flight is answered.
ChatUnmount(atYield) ==
    /\ stream.state \in {"opening", "pulling"}
    /\ ~stream.cancelled
    /\ atYield =>
          /\ stream.state = "pulling"
          /\ stream.produced # <<>>
          /\ stream.produced[Len(stream.produced)].hasText
    /\ stream' =
          IF atYield
          THEN [stream EXCEPT !.cancelled = TRUE, !.wire = <<>>,
                              !.state = "ended", !.upstream = "closed"]
          ELSE [stream EXCEPT !.cancelled = TRUE, !.wire = <<>>]
    /\ chat' = [ChatInit EXCEPT !.sends = chat.sends]
    /\ UNCHANGED <<jar, users, todos, nextId, last, hist, boot, ctx>>

----------------------------------------------------------------------------
(* AuthProvider *)

\* currentUser.getIdToken
GetIdToken(u) == IF u = "u1" THEN "tok_u1" ELSE "tok_u2"

\* the arguments of the two mutations; `by` is the caller
CreateRequest(token) ==
    [op |-> "auth.createSession", token |-> token, by |-> "listener"]
DeleteRequest(by) == [op |-> "auth.deleteSession", token |-> "", by |-> by]

\* useState(null), useState(true), useState(false); the listener registered
\* by the effect is first called with the identity provider's current user
AuthInit ==
    [fb |-> NoUser, events |-> <<NoUser>>,
     user |-> NoUser, loading |-> TRUE, isServerSessionReady |-> FALSE,
     flight |-> EmptyBag, orphans |-> EmptyBag,
     stage |-> "idle", signedOut |-> "none", loads |-> 0, signIns |-> 0]

\* mutate / mutateAsync: the request leaves the browser
Sent(c, req) == [c EXCEPT !.flight = @ (+) SetToBag({req})]

\* the response of `req` is back
Answered(c, req) == [c EXCEPT !.flight = @ (-) SetToBag({req})]

\* firebaseSignOut(auth): the identity provider forgets its user and tells
\* the listener, or fails
FirebaseSignedOut(c, ok) ==
    IF ~ok THEN [c EXCEPT !.signedOut = "failed"]
    ELSE IF c.fb = NoUser THEN [c EXCEPT !.signedOut = "ok"]
    ELSE [c EXCEPT !.fb = NoUser, !.events = Append(@, NoUser),
                   !.signedOut = "ok"]

\* deleteSessionMutation.isIdle || deleteSessionMutation.isError as the
\* listener sees it: the effect has no dependencies, so the listener holds the
\* mutation object of the first render, which is idle
ListenerSeesIdle == TRUE

\* the callback of onAuthStateChanged, with the outcome of getIdToken and of
\* the sign-out that follows its failure
OnAuthStateChanged(tokenOk, signOutOk) ==
    /\ ctx.events # <<>>
    /\ LET currentUser == Head(ctx.events)
           c == [ctx EXCEPT !.events = Tail(@),
                            !.user = currentUser,
                            !.loading = FALSE,
                            !.isServerSessionReady = TRUE]
       IN /\ (currentUser = NoUser \/ tokenOk) => signOutOk
          /\ currentUser = NoUser => tokenOk
          /\ ctx' = IF currentUser # NoUser
                    THEN IF tokenOk
                         THEN Sent(c, CreateRequest(GetIdToken(currentUser)))
                         ELSE FirebaseSignedOut(c, signOutOk)
                    ELSE IF ListenerSeesIdle
                         THEN Sent(c, DeleteRequest("listener"))
                         ELSE c
    /\ UNCHANGED <<jar, users, todos, nextId, last, hist, boot, stream, chat>>

\* onError of createSessionMutation
CreateSessionOnError_Retry(c, req, signOutOk) == Sent(c, req)
CreateSessionOnError(c, req, signOutOk) == FirebaseSignedOut(c, signOutOk)

\* a createSession in flight reaches the server and its response the client
CreateSessionSettled(req, fault, signOutOk) ==
    /\ BagIn(req, ctx.flight)
    /\ req.op = "auth.createSession"
    /\ CreateSession(req.token, fault)
    /\ last'.code = "OK" => signOutOk
    /\ ctx' = IF last'.code = "OK" THEN Answered(ctx, req)
              ELSE CreateSessionOnError(Answered(ctx, req), req, signOutOk)
    /\ UNCHANGED <<stream, chat>>

\* signOut after `await deleteSessionMutation.mutateAsync()`: on to the
\* provider's sign-out whatever the answer
AfterDeleteSession_Regardless(c, code) == [c EXCEPT !.stage = "signingOut"]
\* signOut after `await deleteSessionMutation.mutateAsync()`: the rejection
\* goes to the catch
AfterDeleteSession(c, code) ==
    [c EXCEPT !.stage = IF code = "OK" THEN "signingOut" ELSE "idle"]

\* a deleteSession in flight reaches the server and its response the client
DeleteSessionSettled(req, fault) ==
    /\ BagIn(req, ctx.flight)
    /\ req.op = "auth.deleteSession"
    /\ DeleteSession(fault)
    /\ ctx' = IF req.by = "signOut"
              THEN AfterDeleteSession(Answered(ctx, req), last'.code)
              ELSE Answered(ctx, req)
    /\ UNCHANGED <<stream, chat>>

\* a request of a page that is gone reaches the server; nothing waits for its
\* response
OrphanSettled(req, fault) ==
    /\ BagIn(req, ctx.orphans)
    /\ IF req.op = "auth.createSession"
       THEN fault # "delete" /\ CreateSession(req.token, fault)
       ELSE fault \in {"none", "delete"} /\ DeleteSession(fault)
    /\ ctx' = [ctx EXCEPT !.orphans = @ (-) SetToBag({req})]
    /\ UNCHANGED <<stream, chat>>

\* signIn: signInWithPopup resolves with `u`
SignIn(u) ==
    /\ ctx.fb = NoUser
    /\ ctx.signIns < MaxSignIns
    /\ ctx' = [ctx EXCEPT !.fb = u, !.events = Append(@, u), !.signIns = @ + 1]
    /\ UNCHANGED <<jar, users, todos, nextId, last, hist, boot, stream, chat>>

\* signOut up to its first await; one call at a time
SignOut ==
    /\ ctx.user # NoUser
    /\ ctx.stage = "idle"
    /\ ctx' = Sent([ctx EXCEPT !.stage = "deleting"], DeleteRequest("signOut"))
    /\ UNCHANGED <<jar, users, todos, nextId, last, hist, boot, stream, chat>>

\* window.location.replace: the document is loaded anew, its requests in
\* flight lose their callbacks
Reloaded(c) ==
    [AuthInit EXCEPT !.fb = c.fb, !.events = <<c.fb>>,
                     !.orphans = c.orphans (+) c.flight,
                     !.signedOut = c.signedOut,
                     !.loads = c.loads + 1, !.signIns = c.signIns]

\* signOut from `await firebaseSignOut(auth)` on
SignOutFirebase(ok) ==
    /\ ctx.stage = "signingOut"
    /\ ctx' = IF ok THEN Reloaded(FirebaseSignedOut(ctx, TRUE))
              ELSE [FirebaseSignedOut(ctx, FALSE) EXCEPT !.stage = "idle"]
    /\ UNCHANGED <<jar, users, todos, nextId, last, hist, boot, stream, chat>>

\* the getAll query of TodoList, enabled by isServerSessionReady
GetAllQuery ==
    /\ ctx.isServerSessionReady
    /\ TodoGetAll
    /\ UNCHANGED bridge

----------------------------------------------------------------------------
(* The server process *)

\* the check at the top of auth.ts and trpc.ts, with the length check left out
SecretAccepted_NonEmpty(secret) == secret # 0
\* the check at the top of auth.ts and trpc.ts
SecretAccepted(secret) == ~(secret = 0 \/ secret < MinSecretLength)

\* the process loads the modules of the API: the throw at the top of either
\* module ends it before any router exists
LoadModules ==
    /\ boot.server = "loading"
    /\ boot' = [boot EXCEPT !.server =
                    IF SecretAccepted(boot.secret) THEN "up" ELSE "refused"]
    /\ UNCHANGED <<jar, users, todos, nextId, last, hist, stream, chat, ctx>>

\* the routers exist and answer requests
Serving == boot.server = "up"

----------------------------------------------------------------------------
(* Specification *)

Init ==
    /\ jar = NoCookie
    /\ users = [u \in Users |-> "absent"]
    /\ todos = [i \in {} |-> NewTodo(i, "a", Undefined, "u1")]
    /\ nextId = 1
    /\ last = Idle
    /\ hist = [creator |-> [i \in {} |-> NoUser], deleted |-> {}, issued |-> {}]
    /\ boot = [secret |-> MinSecretLength, nodeEnv |-> "production", server |-> "up"]
    /\ stream = StreamIdle
    /\ chat = ChatInit
    /\ ctx = AuthInit

\* the server and one client, everything that can happen
Next ==
    \/ \E title \in Titles \cup {""}, description \in Descriptions \cup {Undefined} :
          TodoCreate(title, description) /\ UNCHANGED bridge
    \/ TodoGetAll /\ UNCHANGED bridge
    \/ \E id \in IdInputs, status \in StatusInputs \cup {"BOGUS"} :
          TodoUpdateStatus(id, status) /\ UNCHANGED bridge
    \/ \E id \in IdInputs, title \in Titles \cup {Undefined, ""},
          description \in Descriptions \cup {Null, Undefined} :
          TodoUpdateDetails(id, title, description) /\ UNCHANGED bridge
    \/ \E id \in IdInputs : TodoDelete(id) /\ UNCHANGED bridge
    \/ \E prompt \in {"hi", ""} : AiGenerateStream(prompt) /\ UNCHANGED bridge
    \/ \E token \in IdTokens, fault \in Faults : CreateSession(token, fault) /\ UNCHANGED bridge
    \/ \E fault \in {"none", "delete"} : DeleteSession(fault) /\ UNCHANGED bridge
    \/ \E v \in Forgeable : ClientSetCookie(v) /\ UNCHANGED bridge
    \/ \E t \in Elapsed : Tick(t) /\ UNCHANGED bridge
    \/ BrowserExpire /\ UNCHANGED bridge
    \/ \E u \in Users : SignIn(u)
    \/ \E tokenOk \in BOOLEAN, signOutOk \in BOOLEAN :
          OnAuthStateChanged(tokenOk, signOutOk)
    \/ \E req \in BagToSet(ctx.flight), fault \in Faults, signOutOk \in BOOLEAN :
          CreateSessionSettled(req, fault, signOutOk)
    \/ \E req \in BagToSet(ctx.flight), fault \in {"none", "delete"} :
          DeleteSessionSettled(req, fault)
    \/ \E req \in BagToSet(ctx.orphans), fault \in Faults \cup {"delete"} :
          OrphanSettled(req, fault)
    \/ SignOut
    \/ \E ok \in BOOLEAN : SignOutFirebase(ok)
    \/ GetAllQuery

\* the protected procedures behind the Session Middleware, under every cookie a
\* client can send; sign-in never fails
NextMiddleware ==
    \/ TodoCreate("a", Undefined) /\ UNCHANGED bridge
    \/ TodoGetAll /\ UNCHANGED bridge
    \/ \E id \in Ids : TodoUpdateStatus(id, "DONE") /\ UNCHANGED bridge
    \/ \E id \in Ids : TodoUpdateDetails(id, "b", Undefined) /\ UNCHANGED bridge
    \/ \E id \in Ids : TodoDelete(id) /\ UNCHANGED bridge
    \/ \E prompt \in {"hi", ""} : AiGenerateStream(prompt) /\ UNCHANGED bridge
    \/ \E token \in {"tok_u1", "tok_u2"} : CreateSession(token, "none") /\ UNCHANGED bridge
    \/ DeleteSession("none") /\ UNCHANGED bridge
    \/ \E v \in Forgeable : ClientSetCookie(v) /\ UNCHANGED bridge
    \/ \E t \in Elapsed : Tick(t) /\ UNCHANGED bridge
    \/ BrowserExpire /\ UNCHANGED bridge

\* the session endpoints under every identity token, cookie and fault
NextSession ==
    \/ \E token \in IdTokens, fault \in Faults : CreateSession(token, fault) /\ UNCHANGED bridge
    \/ \E fault \in {"none", "delete"} : DeleteSession(fault) /\ UNCHANGED bridge
    \/ \E v \in Forgeable : ClientSetCookie(v) /\ UNCHANGED bridge
    \/ \E t \in Elapsed : Tick(t) /\ UNCHANGED bridge
    \/ BrowserExpire /\ UNCHANGED bridge
    \/ TodoCreate("a", Undefined) /\ UNCHANGED bridge
    \/ TodoGetAll /\ UNCHANGED bridge

\* the to-do procedures under the sessions of two users
NextTodo ==
    \/ \E token \in {"tok_u1", "tok_u2"} : CreateSession(token, "none") /\ UNCHANGED bridge
    \/ \E title \in {"a", ""} : TodoCreate(title, Undefined) /\ UNCHANGED bridge
    \/ TodoGetAll /\ UNCHANGED bridge
    \/ \E id \in Ids : TodoUpdateStatus(id, "DONE") /\ UNCHANGED bridge
    \/ \E id \in Ids, fields \in DetailInputs :
          TodoUpdateDetails(id, fields[1], fields[2]) /\ UNCHANGED bridge
    \/ \E id \in Ids : TodoDelete(id) /\ UNCHANGED bridge

\* a process about to load its modules, under any environment
InitBoot ==
    /\ jar = NoCookie
    /\ users = [u \in Users |-> "absent"]
    /\ todos = [i \in {} |-> NewTodo(i, "a", Undefined, "u1")]
    /\ nextId = 1
    /\ last = Idle
    /\ hist = [creator |-> [i \in {} |-> NoUser], deleted |-> {}, issued |-> {}]
    /\ boot \in [secret : SecretLengths, nodeEnv : NodeEnvs, server : {"loading"}]
    /\ stream = StreamIdle
    /\ chat = ChatInit
    /\ ctx = AuthInit

\* the process from its start: the modules load, then the session endpoints
\* and a protected procedure answer
NextBoot ==
    \/ LoadModules
    \/ Serving /\ \E token \in IdTokens, fault \in Faults : CreateSession(token, fault) /\ UNCHANGED bridge
    \/ Serving /\ \E fault \in {"none", "delete"} : DeleteSession(fault) /\ UNCHANGED bridge
    \/ Serving /\ \E v \in Forgeable : ClientSetCookie(v) /\ UNCHANGED bridge
    \/ Serving /\ \E t \in Elapsed : Tick(t) /\ UNCHANGED bridge
    \/ Serving /\ BrowserExpire /\ UNCHANGED bridge
    \/ Serving /\ TodoCreate("a", Undefined) /\ UNCHANGED bridge
    \/ Serving /\ TodoGetAll /\ UNCHANGED bridge

\* the chat page is opened, signed out or with the session of u1
InitStream ==
    /\ \/ /\ jar = NoCookie
          /\ users = [u \in Users |-> "absent"]
          /\ hist = [creator |-> [i \in {} |-> NoUser], deleted |-> {},
                     issued |-> {}]
       \/ /\ jar = SealData("u1", SessionPassword)
          /\ users = Upsert([u \in Users |-> "absent"], "u1",
                            VerifyIdToken("tok_u1").email)
          /\ hist = [creator |-> [i \in {} |-> NoUser], deleted |-> {},
                     issued |-> {"u1"}]
    /\ todos = [i \in {} |-> NewTodo(i, "a", Undefined, "u1")]
    /\ nextId = 1
    /\ last = Idle
    /\ boot = [secret |-> MinSecretLength, nodeEnv |-> "production", server |-> "up"]
    /\ stream = StreamIdle
    /\ chat = ChatInit
    /\ ctx = AuthInit

\* one chat over the Stream Bridge: prompts, the subscription, the hosted API's
\* answers, delivery, leaving the page
NextStream ==
    \/ \E text \in InputTexts : ChatSend(text)
    \/ Subscribe
    \/ \E ok \in BOOLEAN : UpstreamOpen(ok)
    \/ \E outcome \in Outcomes : UpstreamRespond(outcome)
    \/ ClientDeliver
    \/ \E atYield \in BOOLEAN : ChatUnmount(atYield)

\* a visitor, or a user the identity provider remembers whose cookie is still
\* in the jar
InitAuth ==
    /\ \/ /\ jar = NoCookie
          /\ users = [u \in Users |-> "absent"]
          /\ hist = [creator |-> [i \in {} |-> NoUser], deleted |-> {},
                     issued |-> {}]
          /\ ctx = AuthInit
       \/ /\ jar = SealData("u1", SessionPassword)
          /\ users = Upsert([u \in Users |-> "absent"], "u1",
                            VerifyIdToken("tok_u1").email)
          /\ hist = [creator |-> [i \in {} |-> NoUser], deleted |-> {},
                     issued |-> {"u1"}]
          /\ ctx = [AuthInit EXCEPT !.fb = "u1", !.events = <<"u1">>]
    /\ todos = [i \in {} |-> NewTodo(i, "a", Undefined, "u1")]
    /\ nextId = 1
    /\ last = Idle
    /\ boot = [secret |-> MinSecretLength, nodeEnv |-> "production", server |-> "up"]
    /\ stream = StreamIdle
    /\ chat = ChatInit

\* one browser running AuthProvider and TodoList: sign-in, the listener, the
\* requests in flight settling in any order, sign-out
NextAuth ==
    \/ \E u \in Users : SignIn(u)
    \/ \E tokenOk \in BOOLEAN, signOutOk \in BOOLEAN :
          OnAuthStateChanged(tokenOk, signOutOk)
    \/ \E req \in BagToSet(ctx.flight), fault \in Faults, signOutOk \in BOOLEAN :
          CreateSessionSettled(req, fault, signOutOk)
    \/ \E req \in BagToSet(ctx.flight), fault \in {"none", "delete"} :
          DeleteSessionSettled(req, fault)
    \/ \E req \in BagToSet(ctx.orphans), fault \in Faults \cup {"delete"} :
          OrphanSettled(req, fault)
    \/ SignOut
    \/ \E ok \in BOOLEAN : SignOutFirebase(ok)
    \/ GetAllQuery

Spec == Init /\ [][NextMiddleware]_vars
SpecBoot == InitBoot /\ [][NextBoot]_vars
SpecStream == InitStream /\ [][NextStream]_vars
\* the hosted API answers every call and every pull, and events on the wire
\* arrive
SpecStreamFair ==
    /\ InitStream /\ [][NextStream]_vars
    /\ WF_vars(\E ok \in BOOLEAN : UpstreamOpen(ok))
    /\ WF_vars(\E outcome \in Outcomes : UpstreamRespond(outcome))
    /\ WF_vars(ClientDeliver)
SpecSession == Init /\ [][NextSession]_vars
SpecTodo == Init /\ [][NextTodo]_vars
SpecAuth == InitAuth /\ [][NextAuth]_vars
\* the listener is called for every change of the provider's user, and every
\* request in flight settles
SpecAuthFair ==
    /\ InitAuth /\ [][NextAuth]_vars
    /\ WF_vars(\E tokenOk \in BOOLEAN, signOutOk \in BOOLEAN :
                  OnAuthStateChanged(tokenOk, signOutOk))
    /\ WF_vars(\E req \in BagToSet(ctx.flight), fault \in Faults,
                  signOutOk \in BOOLEAN :
                  CreateSessionSettled(req, fault, signOutOk))
    /\ WF_vars(\E req \in BagToSet(ctx.flight), fault \in {"none", "delete"} :
                  DeleteSessionSettled(req, fault))
SpecAll == Init /\ [][Next]_vars

----------------------------------------------------------------------------
(* Properties of the Session Middleware (Spec) *)

StoreUnchanged == todos' = todos /\ users' = users /\ nextId' = nextId

\* the terminal states of the middleware, read off the response
Valid(r) == r.uid \in Users /\ r.code # "UNAUTHORIZED"
RejectedUnauthorized(r) ==
    /\ r.code = "UNAUTHORIZED"
    /\ r.uid = NoUser
    /\ ~r.ran
    /\ r.reads = 0 /\ r.writes = 0 /\ r.gen = 0 /\ r.count = 0
    /\ r.cookieOp = "none"

\* C1: a protected operation requested with no session cookie, or with an empty
\* one, is answered UNAUTHORIZED; its handler does not run, it reads and writes
\* nothing in the datastore and opens no upstream generation.
C1_NoCookieUnauthorized ==
    [][(last'.op \in ProtectedOps /\ NoValue(last'.cookie))
          => (RejectedUnauthorized(last') /\ StoreUnchanged)]_vars

C1_Witness ==
    /\ last.op = "todo.delete"
    /\ last.cookie = EmptyCookie
    /\ last.code = "UNAUTHORIZED"
    /\ last.id \in DOMAIN todos

\* C2: whenever the handler of a protected operation ran, the middleware had
\* attached one subject id, the uid that unsealing the request's cookie under
\* the server's password gives; no handler runs for an anonymous context.
C2_HandlerHasUnsealedSubject ==
    (last.op \in ProtectedOps /\ last.ran)
        => /\ last.uid \in Users
           /\ ~NoValue(last.cookie)
           /\ UnsealData(last.cookie, SessionPassword) = [kind |-> "data", uid |-> last.uid]

C2_Witness ==
    /\ last.op = "todo.create"
    /\ last.ran
    /\ last.uid = "u2"
    /\ last.code = "OK"

\* C3: a request to a protected operation ends either Valid or Rejected, never
\* both and never neither; a cookie that is present but does not unseal to
\* claims with a uid is Rejected with UNAUTHORIZED, the handler does not run,
\* nothing is written, and the cookie is left as it was in every case.
C3_ValidOrRejected ==
    [][last'.op \in ProtectedOps
          => /\ Valid(last') # RejectedUnauthorized(last')
             /\ last'.ran => Valid(last')
             /\ jar' = jar /\ last'.cookieOp = "none"
             /\ (/\ ~NoValue(last'.cookie)
                 /\ UnsealData(last'.cookie, SessionPassword).kind # "data")
                   => (RejectedUnauthorized(last') /\ StoreUnchanged)]_vars

C3_Witness ==
    /\ last.op = "todo.updateStatus"
    /\ last.cookie.kind = "sealed"
    /\ last.cookie.key = SessionPassword
    /\ last.cookie.age > IronDefaultTtl + IronSkew
    /\ last.code = "UNAUTHORIZED"
    /\ last.id \in DOMAIN todos
    /\ todos[last.id].userId = last.cookie.uid
    /\ todos[last.id].status = "TODO"
    /\ jar = last.cookie

----------------------------------------------------------------------------
(* Properties of the to-do procedures (SpecTodo) *)

\* no row with this id that this subject owns
Missing(ts, id, uid) == id \notin DOMAIN ts \/ ts[id].userId # uid

\* C4: an updateStatus, updateDetails or delete made under the session of
\* subject B leaves every row owned by another subject exactly as it was,
\* whatever id it targets.
C4_OtherOwnersRowsUntouched ==
    [][last'.op \in MutationOps
          => \A i \in DOMAIN todos :
                todos[i].userId # last'.uid
                    => (i \in DOMAIN todos' /\ todos'[i] = todos[i])]_vars

C4_Witness ==
    /\ last.op = "todo.updateDetails"
    /\ last.ran
    /\ last.nfields = 2
    /\ last.id \in DOMAIN todos
    /\ todos[last.id].userId \in Users \ {last.uid}
    /\ todos[last.id].status = "DONE"

\* C5 as stated: every mutation whose target is missing or owned by another
\* subject changes no row and answers an error, never success.
C5_MissingTargetNeverSucceeds ==
    [][(last'.op \in MutationOps /\ Missing(todos, last'.id, last'.uid))
          => (last'.code # "OK" /\ last'.count = 0 /\ todos' = todos)]_vars

\* C5, amended: such a mutation changes no row; updateStatus, delete, and
\* updateDetails given a title or a description answer the error "Todo not
\* found or update/delete failed" (as INTERNAL_SERVER_ERROR) when their handler
\* runs and never success; updateDetails given neither answers success
\* without touching the store.
C5_MissingTargetErrorUnlessNoFields ==
    [][(last'.op \in MutationOps /\ Missing(todos, last'.id, last'.uid))
          => /\ last'.count = 0 /\ todos' = todos
             /\ IF last'.op = "todo.updateDetails" /\ last'.nfields = 0 /\ last'.ran
                THEN last'.code = "OK" /\ last'.writes = 0
                ELSE /\ last'.code # "OK"
                     /\ last'.ran =>
                           /\ last'.code = "INTERNAL_SERVER_ERROR"
                           /\ last'.msg \in {NotFoundUpdate, NotFoundDelete}]_vars

C5_Witness ==
    /\ last.op = "todo.delete"
    /\ last.ran
    /\ last.id \in DOMAIN todos
    /\ todos[last.id].userId \in Users \ {last.uid}
    /\ last.code = "INTERNAL_SERVER_ERROR"
    /\ last.msg = NotFoundDelete

\* the ids of the rows a response carries
BodyIds(r) == {r.body[k].id : k \in 1..Len(r.body)}

\* C6: getAll under a session of subject u answers exactly the to-dos created
\* under sessions of u and not deleted since, each once and as stored; the row
\* create answers and stores has status TODO and the creating session's
\* subject as userId.
C6_GetAllExactlyOwn ==
    /\ (last.op = "todo.getAll" /\ last.ran)
          => /\ BodyIds(last) = {i \in DOMAIN hist.creator :
                                    hist.creator[i] = last.uid /\ i \notin hist.deleted}
             /\ Len(last.body) = Cardinality(BodyIds(last))
             /\ \A k \in 1..Len(last.body) :
                   /\ last.body[k].userId = last.uid
                   /\ todos[last.body[k].id] = last.body[k]
    /\ (last.op = "todo.create" /\ last.ran)
          => /\ Len(last.body) = 1
             /\ last.body[1].status = "TODO"
             /\ last.body[1].userId = last.uid
             /\ last.id \in DOMAIN todos /\ todos[last.id] = last.body[1]

C6_Witness ==
    /\ last.op = "todo.getAll"
    /\ last.ran
    /\ Len(last.body) = 1
    /\ \E i \in DOMAIN todos : todos[i].userId # last.uid

----------------------------------------------------------------------------
(* Properties of the session endpoints (SpecSession) *)

\* the identity tokens the Identity Verifier rejects, or decodes without a uid
InvalidTokens == {"tok_bad", "tok_nouid"}

\* the subject and the email an accepted identity token stands for
TokenSubject(token) == IF token = "tok_u2" THEN "u2" ELSE "u1"
TokenEmail(token) == IF token = "tok_u1" THEN "e1" ELSE Null

\* the cookie is a seal of {uid} under the server's password, within its ttl
UnsealsTo(cookie, uid) ==
    /\ cookie.kind = "sealed"
    /\ cookie.key = SessionPassword
    /\ cookie.uid = uid
    /\ cookie.age <= IronDefaultTtl + IronSkew

\* C7: createSession with an identity token that the verifier rejects, or that
\* decodes without a uid, fails with UNAUTHORIZED having written nothing to
\* the User Directory and having left the cookie, present or absent, as it was.
C7_BadTokenNoSideEffect ==
    [][(last'.op = "auth.createSession" /\ last'.token \in InvalidTokens)
          => /\ last'.code = "UNAUTHORIZED"
             /\ last'.writes = 0 /\ last'.cookieOp = "none"
             /\ users' = users /\ jar' = jar /\ todos' = todos]_vars

C7_Witness ==
    /\ last.op = "auth.createSession"
    /\ last.token = "tok_nouid"
    /\ last.code = "UNAUTHORIZED"
    /\ jar.kind = "sealed"
    /\ jar = last.cookie

C9_NewSessionReplaces ==
    (/\ last.op = "auth.createSession"
     /\ last.code = "OK"
     /\ ~UnsealsTo(last.cookie, TokenSubject(last.token)))
        => /\ last.token \notin InvalidTokens
           /\ jar = [kind |-> "sealed", key |-> SessionPassword,
                     uid |-> TokenSubject(last.token), age |-> 0]
           /\ UnsealData(jar, SessionPassword) =
                 [kind |-> "data", uid |-> TokenSubject(last.token)]
           /\ last.cookieOp = "set"
           /\ users[TokenSubject(last.token)] = TokenEmail(last.token)

C9_Witness ==
    /\ last.op = "auth.createSession"
    /\ last.code = "OK"
    /\ last.token = "tok_u1_noemail"
    /\ UnsealsTo(last.cookie, "u2")
    /\ jar.uid = "u1"
    /\ users = [u \in Users |-> Null]

\* C10: once the token is verified, a failure of the upsert, of the sealing or
\* of the cookie write makes createSession answer INTERNAL_SERVER_ERROR, and
\* a failure of the verification is answered UNAUTHORIZED, never
\* INTERNAL_SERVER_ERROR.
C10_FailureCodes ==
    last.op = "auth.createSession"
        => /\ (/\ last.token \notin InvalidTokens
               /\ ~UnsealsTo(last.cookie, TokenSubject(last.token))
               /\ last.fault # "none")
                 => last.code = "INTERNAL_SERVER_ERROR"
           /\ last.token \in InvalidTokens => last.code = "UNAUTHORIZED"

C10_Witness ==
    /\ last.op = "auth.createSession"
    /\ last.fault = "seal"
    /\ last.code = "INTERNAL_SERVER_ERROR"
    /\ last.token = "tok_u1"
    /\ users["u1"] = "e1"
    /\ jar = last.cookie
    /\ jar.kind = "raw"

----------------------------------------------------------------------------
(* Properties of deleteSession (SpecSession) *)

\* C11 as the specification words it: deleteSession answers success and leaves
\* no session cookie, whatever happens.
C11_AlwaysSucceeds ==
    last.op = "auth.deleteSession" => last.code = "OK" /\ jar = NoCookie

\* C11: deleteSession, from a valid, an invalid or no cookie, answers success
\* and leaves no session cookie unless the cookie store's delete itself throws,
\* which is answered INTERNAL_SERVER_ERROR with the cookie as it was; a second
\* successful call in a row gives the result and the state of the first; no
\* call touches the User Directory or the to-do store.
C11_DeleteSessionIdempotent ==
    [][last'.op = "auth.deleteSession" =>
          /\ StoreUnchanged /\ hist' = hist
          /\ last'.reads = 0 /\ last'.writes = 0
          /\ IF last'.fault = "delete"
             THEN last'.code = "INTERNAL_SERVER_ERROR" /\ jar' = jar
             ELSE /\ last'.code = "OK" /\ last'.msg = ""
                  /\ jar' = NoCookie
                  /\ (last.op = "auth.deleteSession" /\ last.code = "OK")
                        => /\ jar' = jar
                           /\ last'.code = last.code /\ last'.msg = last.msg]_vars

C11_Witness ==
    /\ last.op = "auth.deleteSession"
    /\ last.code = "OK"
    /\ last.cookie = NoCookie
    /\ jar = NoCookie
    /\ users["u1"] # "absent"

----------------------------------------------------------------------------
(* Properties of the seal (Spec) *)

\* C12: a session cookie presented to the middleware more than 432000 seconds
\* after it was sealed is rejected with UNAUTHORIZED, even when the client
\* still sends it.
C12_FiveDayLifetime ==
    (/\ last.op \in ProtectedOps
     /\ last.cookie.kind = "sealed"
     /\ last.cookie.key = SessionPassword
     /\ last.cookie.age > 432000)
        => RejectedUnauthorized(last)

\* C13: the middleware attaches the subject u only to a request whose cookie
\* is a seal of {uid: u} under the server's secret that a createSession call
\* issued after verifying a token of u; a raw identity token, a seal under
\* another secret and a modified seal are rejected.
C13_OnlyIssuedSeals ==
    /\ (last.op \in ProtectedOps /\ last.uid # NoUser)
          => /\ last.cookie.kind = "sealed"
             /\ last.cookie.key = SessionPassword
             /\ last.cookie.uid = last.uid
             /\ last.uid \in hist.issued
    /\ (/\ last.op \in ProtectedOps
        /\ \/ last.cookie.kind \in {"raw", "tampered"}
           \/ last.cookie.kind = "sealed" /\ last.cookie.key # SessionPassword)
          => RejectedUnauthorized(last)

C13_Witness ==
    /\ last.op \in ProtectedOps
    /\ last.cookie = SealData("u1", "other")
    /\ RejectedUnauthorized(last)
    /\ "u1" \in hist.issued

----------------------------------------------------------------------------
(* Properties of the server process (SpecBoot) *)

\* C14: the server starts exactly when SESSION_SECRET has 32 characters or
\* more: with an unset or shorter secret the module load throws and no
\* procedure ever handles a request; the check belongs to the load and a
\* request never makes it again.
C14_StartsOnlyWithLongSecret ==
    /\ [](/\ boot.server = "up" => boot.secret >= 32
          /\ boot.server = "refused" => boot.secret < 32
          /\ boot.server # "up" =>
                /\ last = Idle
                /\ jar = NoCookie
                /\ \A u \in Users : users[u] = "absent"
                /\ DOMAIN todos = {})
    /\ [][/\ boot.server = "refused" => UNCHANGED vars
          /\ boot.server = "up" => boot' = boot]_vars

C14_Witness ==
    /\ boot.server = "refused"
    /\ boot.secret = 31

\* C15: every cookie createSession sets is named `session` and has
\* httpOnly = true, path = /, sameSite = lax, maxAge = 432000 and secure = true
\* exactly when NODE_ENV is production; nothing else sets a cookie.
C15_CookieAttributes ==
    /\ last.cookieOp = "set" =>
          /\ last.op = "auth.createSession"
          /\ last.attrs = [name |-> "session", httpOnly |-> TRUE,
                           secure |-> (boot.nodeEnv = "production"),
                           maxAge |-> 432000, path |-> "/", sameSite |-> "lax"]
    /\ last.cookieOp # "set" => last.attrs = NoAttributes

C15_Witness ==
    /\ last.op = "auth.createSession"
    /\ last.cookieOp = "set"
    /\ boot.nodeEnv = "development"
    /\ ~last.attrs.secure

----------------------------------------------------------------------------
(* Properties of the Stream Bridge (SpecStream, SpecStreamFair) *)

\* the texts of the chunks that have one, in order
RECURSIVE TextsOf(_)
TextsOf(chunks) ==
    IF chunks = <<>> THEN <<>>
    ELSE IF Head(chunks).hasText
         THEN <<Head(chunks).text>> \o TextsOf(Tail(chunks))
         ELSE TextsOf(Tail(chunks))

\* one data event for each text
DataEvents(texts) == [i \in DOMAIN texts |-> Data(texts[i])]

RECURSIVE Concatenation(_)
Concatenation(texts) ==
    IF texts = <<>> THEN <<>> ELSE Head(texts) \o Concatenation(Tail(texts))

\* the contents of the messages with this id
ContentsOf(messages, id) ==
    {messages[i].content : i \in {j \in DOMAIN messages : messages[j].id = id}}

ChatIdle(c) == ~c.isGenerating /\ c.currentPrompt = "" /\ c.currentId = 0

\* the subscriber has handled every event the server sent
AllHandled(s) == ~s.cancelled /\ s.wire = <<>> /\ s.got = s.sent

C17_FaultIsErrorEvent ==
    (~stream.cancelled /\ stream.upstream = "fault")
        => stream.sent = DataEvents(TextsOf(stream.produced))
                            \o <<ErrorEvent("INTERNAL_SERVER_ERROR")>>

\* C18: once the hosted API has failed mid-stream and the subscriber has
\* handled what it was sent, the partially built assistant message is gone
\* from the list and the chat is idle.
C18_PartialMessageRemoved ==
    (/\ AllHandled(stream)
     /\ stream.upstream = "fault"
     /\ stream.produced # <<>>)
        => /\ ContentsOf(chat.messages, stream.msgId) = {}
           /\ stream.sub = chat.sends => ChatIdle(chat)

\* C19: after the subscriber cancels, the server consumes no further upstream
\* chunk and delivers none, and the upstream iterator is closed.
C19_CancelStopsUpstream ==
    [][stream.cancelled =>
          /\ stream.upstream # "open"
          /\ stream'.sub = stream.sub =>
                /\ stream'.produced = stream.produced
                /\ stream'.got = stream.got]_vars

\* C20: a subscription whose upstream finishes or faults reaches a terminal
\* event; after it nothing more is sent and nothing more is pulled from the
\* upstream, and the subscription does not start again: each prompt sent has
\* at most one.
C20_StreamIsFinite ==
    /\ [](/\ stream.sub <= chat.sends
          /\ (~stream.cancelled /\ stream.state = "ended")
                => /\ stream.sent # <<>>
                   /\ stream.sent[Len(stream.sent)].type \in {"complete", "error"}
                   /\ \A i \in 1..(Len(stream.sent) - 1) :
                         stream.sent[i].type = "data")
    /\ [][(stream.state = "ended" /\ stream'.sub = stream.sub)
             => /\ stream'.state = "ended"
                /\ stream'.sent = stream.sent
                /\ stream'.produced = stream.produced
                /\ stream'.upstream = stream.upstream]_vars
    /\ (stream.state \in {"opening", "pulling"}) ~> (stream.state = "ended")

C20_Witness ==
    /\ stream.state = "ended"
    /\ stream.upstream = "fault"
    /\ stream.produced # <<>>
    /\ AllHandled(stream)

----------------------------------------------------------------------------
(* Further properties of the to-do procedures (SpecTodo) *)

\* what the caller of a mutation reads off the response
Response(r) == <<r.code, r.msg, r.count, r.body>>

\* the response of a mutation that matched no row: it depends on the
\* procedure and on whether fields were given, not on the id
NoMatchResponse(op, nfields) ==
    CASE op = "todo.updateDetails" /\ nfields = 0
           -> <<"OK", "No changes provided", 0, <<>>>>
      [] op = "todo.delete"
           -> <<"INTERNAL_SERVER_ERROR", "Todo not found or delete failed", 0, <<>>>>
      [] OTHER
           -> <<"INTERNAL_SERVER_ERROR", "Todo not found or update failed", 0, <<>>>>

\* C21: for updateStatus, updateDetails and delete the response to a target id
\* that does not exist and the response to one that another subject owns are
\* the same, so the response does not tell whether the id exists.
C21_MissingAndForeignAlike ==
    [][(last'.op \in MutationOps /\ last'.ran)
          => /\ last'.id \notin DOMAIN todos
                   => Response(last') = NoMatchResponse(last'.op, last'.nfields)
             /\ (last'.id \in DOMAIN todos /\ todos[last'.id].userId # last'.uid)
                   => Response(last') = NoMatchResponse(last'.op, last'.nfields)]_vars

C21_Witness ==
    /\ last.op = "todo.updateStatus"
    /\ last.ran
    /\ last.id \notin DOMAIN todos
    /\ last.code = "INTERNAL_SERVER_ERROR"
    /\ \E i \in DOMAIN todos : todos[i].userId # last.uid

\* C26: updateDetails given neither title nor description answers
\* {success: true, message: "No changes provided"} for every id, makes no
\* datastore call and changes no row.
C26_NoFieldsNoDatastoreCall ==
    [][(last'.op = "todo.updateDetails" /\ last'.ran /\ last'.given = {})
          => /\ last'.code = "OK"
             /\ last'.msg = "No changes provided"
             /\ last'.reads = 0 /\ last'.writes = 0 /\ last'.count = 0
             /\ todos' = todos /\ users' = users /\ nextId' = nextId]_vars

C26_Witness ==
    /\ last.op = "todo.updateDetails"
    /\ last.ran
    /\ last.given = {}
    /\ last.msg = "No changes provided"
    /\ last.id \in DOMAIN todos
    /\ todos[last.id].userId = last.uid

----------------------------------------------------------------------------
(* Further properties of the session endpoints (SpecSession) *)

\* C27: whenever the middleware accepts the cookie as the session of u, the
\* User Directory has the record of u; so does every owner a to-do row
\* refers to.
C27_ValidSessionHasUser ==
    /\ IsAuthenticated(jar).ok => users[IsAuthenticated(jar).uid] # "absent"
    /\ (last.op \in ProtectedOps /\ last.uid # NoUser) => users[last.uid] # "absent"
    /\ \A i \in DOMAIN todos : users[todos[i].userId] # "absent"

C27_Witness ==
    /\ last.op = "todo.create"
    /\ last.ran
    /\ last.uid = "u2"
    /\ users["u2"] # "absent"
    /\ users["u1"] = "absent"

\* C28: for a verified subject u, createSession takes the path "Existing
\* session validated." exactly when the middleware accepts the request's
\* cookie as the session of u; after any successful createSession for u the
\* middleware accepts the cookie as u.
C28_ExistingCheckAgrees ==
    (last.op = "auth.createSession" /\ last.verified # NoUser)
        => /\ (last.msg = "Existing session validated.")
                 <=> (/\ IsAuthenticated(last.cookie).ok
                      /\ IsAuthenticated(last.cookie).uid = last.verified)
           /\ last.code = "OK"
                 => /\ IsAuthenticated(jar).ok
                    /\ IsAuthenticated(jar).uid = last.verified

C28_Witness ==
    /\ last.op = "auth.createSession"
    /\ last.msg = "Session created/updated."
    /\ last.cookie.kind = "sealed"
    /\ last.cookie.key = SessionPassword
    /\ last.cookie.uid = last.verified
    /\ last.cookie.age > IronDefaultTtl + IronSkew
    /\ jar = SealData(last.verified, SessionPassword)


----------------------------------------------------------------------------
\* the positions of the message the fragments of the stream go to
Targets(c) == {i \in DOMAIN c.messages : c.messages[i].id = c.currentId}

\* the subscription has not ended and was not cancelled
Active(s) == s.state \in {"opening", "pulling"} /\ ~s.cancelled

\* C25: handleSendMessage does nothing while a generation is in progress or
\* when the trimmed input is empty: no message is appended, no subscription
\* started.  So no user message is blank, a prompt is sent only while nothing
\* is generating, a subscription starts only when none is active, the active
\* subscription belongs to the one assistant message that is the streaming
\* target, and a delivered fragment is appended to that message while every
\* other message stays as it was.
C25_SendGuarded ==
    /\ [](/\ \A i \in DOMAIN chat.messages :
               chat.messages[i].role = "user" => chat.messages[i].content # <<"">>
          /\ chat.isGenerating <=> chat.currentId # 0
          /\ chat.isGenerating =>
                /\ Cardinality(Targets(chat)) = 1
                /\ \A i \in Targets(chat) : chat.messages[i].role = "assistant"
          /\ Active(stream) =>
                /\ chat.isGenerating
                /\ stream.sub = chat.sends
                /\ stream.msgId = chat.currentId)
    /\ [][/\ chat.isGenerating /\ stream' = stream =>
                /\ chat'.messages = chat.messages
                /\ chat'.currentId = chat.currentId
                /\ chat'.currentPrompt = chat.currentPrompt
                /\ chat'.isGenerating
                /\ chat'.sends = chat.sends
          /\ chat'.sends # chat.sends => ~chat.isGenerating
          /\ stream'.sub # stream.sub => ~Active(stream)
          /\ (/\ stream.wire # <<>>
              /\ stream'.got = Append(stream.got, Head(stream.wire))
              /\ Head(stream.wire).type = "data") =>
                /\ Targets(chat) # {}
                /\ chat'.messages =
                      [i \in DOMAIN chat.messages |->
                          IF i \in Targets(chat)
                          THEN [chat.messages[i] EXCEPT
                                  !.content = @ \o Head(stream.wire).text]
                          ELSE chat.messages[i]]]_vars

\* a send was tried while the answer was streaming in: the typed text is
\* still in the input, the two messages of the first send are the only ones,
\* and a fragment has reached the assistant message
C25_Witness ==
    /\ chat.isGenerating
    /\ chat.inputValue = "hi"
    /\ Len(chat.messages) = 2
    /\ chat.messages[2].content # <<>>
    /\ Active(stream)



----------------------------------------------------------------------------
\* the copies of `req` in flight with their callbacks
InFlight(c, req) == CopiesIn(req, c.flight)

\* C24: signOut clears the server session first.  It goes on to the identity
\* provider's sign-out only on a successful answer of deleteSession, it
\* redirects only from there and only with the provider signed out, and a
\* failed deleteSession ends it with the provider's user and the page as they
\* were.
C24_SignOutClearsSessionFirst ==
    [][/\ (ctx'.stage = "signingOut" /\ ctx.stage # "signingOut") =>
            /\ ctx.stage = "deleting"
            /\ last'.op = "auth.deleteSession"
            /\ last'.code = "OK"
            /\ last'.cookieOp = "delete"
            /\ ctx'.fb = ctx.fb
            /\ ctx'.loads = ctx.loads
       /\ ctx'.loads # ctx.loads =>
            /\ ctx.stage = "signingOut"
            /\ ctx'.fb = NoUser
            /\ ctx'.signedOut = "ok"
       /\ (/\ ctx.stage = "deleting"
           /\ InFlight(ctx', DeleteRequest("signOut")) = 0
           /\ last'.code # "OK") =>
            /\ ctx'.stage = "idle"
            /\ ctx'.fb = ctx.fb
            /\ ctx'.signedOut = ctx.signedOut
            /\ ctx'.loads = ctx.loads
       /\ (ctx.stage = "deleting" /\ ctx'.stage = "idle") =>
            /\ last'.op = "auth.deleteSession"
            /\ last'.code # "OK"]_vars

\* a sign-out went all the way: the session was deleted, the provider signed
\* out, the page loaded anew and its listener has seen the signed-out state
C24_Witness ==
    /\ ctx.loads = 1
    /\ ctx.fb = NoUser
    /\ ctx.signedOut = "ok"
    /\ ctx.events = <<>>
    /\ jar = NoCookie
    /\ "u1" \in hist.issued

----------------------------------------------------------------------------
\* the createSession requests in flight with their callbacks
CreatesInFlight(c) ==
    InFlight(c, CreateRequest("tok_u1")) + InFlight(c, CreateRequest("tok_u2"))

\* this step brings the client the failure of a createSession of its own:
\* not the answer to a page that is gone, not the listener, not signIn or
\* signOut
CreateSessionFailed ==
    /\ last'.op = "auth.createSession"
    /\ last'.code # "OK"
    /\ BagIn(CreateRequest(last'.token), ctx.flight)
    /\ ctx'.orphans = ctx.orphans
    /\ ctx'.user = ctx.user
    /\ ctx'.loading = ctx.loading
    /\ ctx'.stage = ctx.stage
    /\ ctx'.signIns = ctx.signIns
    /\ ctx'.loads = ctx.loads

\* C22: a failed createSession is not retried.  On the failure the client
\* sends no request, it signs the user out of the identity provider, and with
\* that sign-out done no sign-in waits for the listener; the client sends a
\* createSession only when the listener is told of a signed-in user, and the
\* listener is told of one only at a sign-in; after the failure and the
\* sign-out the client comes to user = null.
C22_NoRetryOfFailedSession ==
    /\ [][/\ CreateSessionFailed =>
               /\ ctx'.flight = ctx.flight (-) SetToBag({CreateRequest(last'.token)})
               /\ ctx'.fb = NoUser \/ ctx'.signedOut = "failed"
               /\ ctx'.signedOut = "ok" =>
                      \A i \in DOMAIN ctx'.events : ctx'.events[i] = NoUser
          /\ CreatesInFlight(ctx') > CreatesInFlight(ctx) =>
               /\ ctx.events # <<>>
               /\ Head(ctx.events) \in Users
               /\ ctx'.user = Head(ctx.events)
               /\ CreatesInFlight(ctx') = CreatesInFlight(ctx) + 1
               /\ InFlight(ctx', CreateRequest(GetIdToken(ctx'.user))) =
                      InFlight(ctx, CreateRequest(GetIdToken(ctx'.user))) + 1
          /\ (/\ ctx'.loads = ctx.loads
              /\ Len(ctx'.events) > Len(ctx.events)
              /\ ctx'.events[Len(ctx'.events)] \in Users) =>
               ctx'.signIns = ctx.signIns + 1]_vars
    /\ (/\ last.op = "auth.createSession"
        /\ last.code # "OK"
        /\ ctx.signedOut = "ok"
        /\ ctx.fb = NoUser) ~> (ctx.user = NoUser)

\* the createSession of a sign-in failed, the provider signed the user out,
\* and the listener, told of it, has set user to null and sent a deleteSession
C22_Witness ==
    /\ last.op = "auth.createSession"
    /\ last.code # "OK"
    /\ ctx.signIns = 1
    /\ ctx.loads = 0
    /\ ctx.signedOut = "ok"
    /\ ctx.fb = NoUser
    /\ ctx.user = NoUser
    /\ ~ctx.loading
    /\ ctx.events = <<>>
    /\ CreatesInFlight(ctx) = 0
    /\ InFlight(ctx, DeleteRequest("listener")) > 0

----------------------------------------------------------------------------
\* C23: todo.getAll is sent only once the server session is ready: for a
\* signed-in user the query leaves only with a cookie in the jar that
\* createSession issued for that user, so it is never answered UNAUTHORIZED
\* for want of the cookie.  (Sign-outs under way or failed are left aside.)
C23_GetAllAfterSession ==
    [][(/\ last'.op = "todo.getAll"
        /\ ctx' = ctx
        /\ ctx.user \in Users
        /\ ctx.fb = ctx.user
        /\ ctx.stage = "idle"
        /\ ctx.signedOut # "failed") =>
          /\ UnsealsTo(jar, ctx.user)
          /\ ctx.user \in hist.issued
          /\ last'.code # "UNAUTHORIZED"]_vars

----------------------------------------------------------------------------
\* every request is answered and the listener has seen every change
Settled(c) ==
    /\ c.flight = EmptyBag
    /\ c.orphans = EmptyBag
    /\ c.events = <<>>
    /\ c.stage = "idle"

\* C30: however the createSession and deleteSession requests of the listener
\* interleave, once all are answered and the client is signed in as u the
\* jar holds a cookie valid for u; and a deleteSession sent for a signed-out
\* state does not take the cookie of a sign-in that came after it.  (Failed
\* sign-outs of the provider are left aside.)
C30_SettledSessionMatches ==
    /\ [](/\ Settled(ctx)
          /\ ctx.user \in Users
          /\ ctx.fb = ctx.user
          /\ ctx.signedOut # "failed"
          => UnsealsTo(jar, ctx.user))
    /\ [][(/\ last'.op = "auth.deleteSession"
           /\ last'.cookieOp = "delete"
           /\ InFlight(ctx', DeleteRequest("listener")) <
                 InFlight(ctx, DeleteRequest("listener"))
           /\ ctx.user \in Users
           /\ ctx.fb = ctx.user
           /\ ctx.signedOut # "failed") =>
             ~UnsealsTo(jar, ctx.user)]_vars

====
